---- MODULE Spec2Model ----
(***************************************************************************)
(* State-machine model of the SQLite Playground root view (src/src/App.tsx),*)
(* its navigation bar (src/src/components/Navbar.tsx) and the schema graph  *)
(* (src/src/components/SchemaViewer.tsx).                                   *)
(*                                                                         *)
(* React state is one variable per useState cell.  A handler is one action:*)
(* the state updates it queues and the effects they trigger synchronously  *)
(* are applied together.  Work that completes later (initSqlJs, FileReader)*)
(* is a pending request completed by its own action.                       *)
(*                                                                         *)
(* The embedded engine (sql.js) is modelled by what the calls made in      *)
(* App.tsx observe of it: an ordered catalog of tables with rows, a        *)
(* modified-row counter, result sets and thrown errors.                    *)
(***************************************************************************)
EXTENDS Integers, Sequences, FiniteSets, TLC

\* ------------------------------------------------------------------ bounds
\* Rows a table may hold (the engine itself has no limit).
MaxRows == 1
\* Database handles constructed in one session (new SQL.Database()).
MaxDbs == 2
\* Mouse-move/mouse-up listener pairs registered and not yet removed.
MaxListeners == 1
\* clearDatabase calls still awaiting initSqlJs.
MaxClears == 1

\* ----------------------------------------------------------- basic values
\* null / absent, for every nullable cell of state
Null == [kind |-> "null"]

\* Cell values the engine returns: string | number | null | Uint8Array.
NumberValue(n) == [kind |-> "number", v |-> n]
TextValue(codes) == [kind |-> "text", s |-> codes]
BinaryValue(bytes) == [kind |-> "binary", bytes |-> bytes]

\* Unicode replacement character, what TextDecoder emits for a malformed byte
ReplacementChar == 65533

\* new TextDecoder().decode(bytes), for byte strings of ASCII bytes and lone
\* bytes that never occur in UTF-8 (>= 248): ASCII maps to itself, the others
\* to U+FFFD.
TextDecode(bytes) ==
  [i \in DOMAIN bytes |-> IF bytes[i] < 128 THEN bytes[i] ELSE ReplacementChar]

\* mutant: binary data passed through undecoded
convertSqlValue_NoDecode(value) == value

\* convertSqlValue, which fetchTables applies to every cell
convertSqlValue(value) ==
  IF value.kind = "binary" THEN TextValue(TextDecode(value.bytes)) ELSE value

\* The same conversion as executeQuery writes it inline for a result cell:
\* if (value instanceof Uint8Array) value = new TextDecoder().decode(value)
decodeResultValue(value) ==
  IF value.kind = "binary" THEN TextValue(TextDecode(value.bytes)) ELSE value

\* --------------------------------------------------------------- the engine
\* Table names: two plain ones and one that holds a double quote
\* (created with  CREATE TABLE "a""b"(x) ).
TableNames == {"t", "u", "a\"b"}

\* Whether the name holds a double-quote character.
HasDoubleQuote(name) == name = "a\"b"

\* Column names of each table (PRAGMA table_info / SELECT * column list).
ColumnsOf(name) == IF name = "u" THEN <<"y">> ELSE <<"x">>

\* A catalog is the sequence of sqlite_master's table rows, in creation
\* order: [name, rows], rows a sequence of value tuples.
CatNames(cat) == {cat[i].name : i \in DOMAIN cat}
CatIndex(cat, name) == CHOOSE i \in DOMAIN cat : cat[i].name = name
CatRows(cat, name) == cat[CatIndex(cat, name)].rows
RemoveAt(s, i) == [j \in 1..(Len(s) - 1) |-> IF j < i THEN s[j] ELSE s[j + 1]]

\* Error messages the engine throws (Error.message), as text pieces.
EngineError(pieces) == [kind |-> "Error", message |-> pieces]
NoSuchTable(name) == EngineError(<<"no such table: ", name>>)
AlreadyExists(name) == EngineError(<<"table ", name, " already exists">>)
SyntaxError == EngineError(<<"near \"SELEC\": syntax error">>)
UnrecognizedToken == EngineError(<<"unrecognized token: \"\"\";\"">>)

\* One statement against (cat, changes): the new catalog, the new
\* modified-row count, the result set it yields (Null when it returns no
\* row) and the error it throws (Null when none).
StepResult(cat, changes, result, error) ==
  [cat |-> cat, changes |-> changes, result |-> result, error |-> error]

ExecStatement(cat, changes, st) ==
  CASE st.kw = "SYNTAX" -> StepResult(cat, changes, Null, SyntaxError)
    [] st.kw = "UNQUOTED" -> StepResult(cat, changes, Null, UnrecognizedToken)
    [] st.kw = "PRAGMA table_info" ->
         \* one row per column: cid, name, type, notnull, dflt_value, pk
         StepResult(cat, changes,
                    IF st.table \notin CatNames(cat) THEN Null
                    ELSE [columns |-> <<"cid", "name", "type", "notnull",
                                        "dflt_value", "pk">>,
                          values |-> [i \in DOMAIN ColumnsOf(st.table) |->
                                        <<i - 1, ColumnsOf(st.table)[i], "", 0,
                                          Null, 0>>]],
                    Null)
    [] st.kw = "PRAGMA foreign_key_list" ->
         \* no table of the scripts declares a foreign key
         StepResult(cat, changes, Null, Null)
    [] st.kw = "CREATE TABLE" ->
         IF st.table \in CatNames(cat)
         THEN StepResult(cat, changes, Null, AlreadyExists(st.table))
         ELSE StepResult(Append(cat, [name |-> st.table, rows |-> <<>>]),
                         changes, Null, Null)
    [] st.kw = "SELECT name FROM sqlite_master" ->
         StepResult(cat, changes,
                    IF cat = <<>> THEN Null
                    ELSE [columns |-> <<"name">>,
                          values |-> [i \in DOMAIN cat |-> <<cat[i].name>>]],
                    Null)
    [] st.kw = "DROP TABLE" ->
         IF st.table \notin CatNames(cat)
         THEN StepResult(cat, changes, Null, NoSuchTable(st.table))
         ELSE StepResult(RemoveAt(cat, CatIndex(cat, st.table)), changes,
                         Null, Null)
    [] st.kw = "INSERT INTO" ->
         IF st.table \notin CatNames(cat)
         THEN StepResult(cat, changes, Null, NoSuchTable(st.table))
         ELSE StepResult([cat EXCEPT ![CatIndex(cat, st.table)].rows =
                                        Append(@, <<st.value>>)],
                         1, Null, Null)
    [] st.kw = "UPDATE" ->
         \* UPDATE table SET column = value: every row is modified
         IF st.table \notin CatNames(cat)
         THEN StepResult(cat, changes, Null, NoSuchTable(st.table))
         ELSE StepResult([cat EXCEPT ![CatIndex(cat, st.table)].rows =
                                        [i \in DOMAIN @ |-> <<st.value>>]],
                         Len(CatRows(cat, st.table)), Null, Null)
    [] st.kw = "DELETE FROM" ->
         IF st.table \notin CatNames(cat)
         THEN StepResult(cat, changes, Null, NoSuchTable(st.table))
         ELSE StepResult([cat EXCEPT ![CatIndex(cat, st.table)].rows = <<>>],
                         Len(CatRows(cat, st.table)), Null, Null)
    [] st.kw = "SELECT * FROM" ->
         IF st.table \notin CatNames(cat)
         THEN StepResult(cat, changes, Null, NoSuchTable(st.table))
         ELSE StepResult(cat, changes,
                         IF CatRows(cat, st.table) = <<>> THEN Null
                         ELSE [columns |-> ColumnsOf(st.table),
                               values |-> CatRows(cat, st.table)],
                         Null)

\* db.exec(sql) / db.run(sql): the statements run in order, each one
\* committed as it ends, up to the first that throws.
RECURSIVE ExecFrom(_, _, _, _)
ExecFrom(cat, changes, stmts, results) ==
  IF stmts = <<>>
  THEN [cat |-> cat, changes |-> changes, results |-> results, error |-> Null]
  ELSE LET r == ExecStatement(cat, changes, Head(stmts))
       IN IF r.error # Null
          THEN [cat |-> r.cat, changes |-> r.changes, results |-> results,
                error |-> r.error]
          ELSE ExecFrom(r.cat, r.changes, Tail(stmts),
                        IF r.result = Null THEN results
                        ELSE Append(results, r.result))

EngineExec(database, stmts) == ExecFrom(database.cat, database.changes, stmts, <<>>)

\* new SQL.Database() / new SQL.Database(bytes)
NewDatabase(id, image) == [kind |-> "db", id |-> id, cat |-> image, changes |-> 0]

\* ------------------------------------------------------------ editor texts
\* An editor text: its source, the same text character by character (what
\* the regular expressions of isDMLQuery read), and the statements the
\* engine parses it into.
Script(src, chars, stmts) == [src |-> src, chars |-> chars, stmts |-> stmts]
Stmt(kw, table) == [kw |-> kw, table |-> table]
Insert(table, value) == [kw |-> "INSERT INTO", table |-> table, value |-> value]
Update(table, value) == [kw |-> "UPDATE", table |-> table, value |-> value]

DefaultContent ==
  Script("-- Write your SQL here",
    <<"-", "-", " ", "W", "r", "i", "t", "e", " ", "y", "o", "u", "r", " ",
      "S", "Q", "L", " ", "h", "e", "r", "e">>,
    <<>>)

Scripts ==
  { DefaultContent,
    Script("CREATE TABLE t(x);",
      <<"C", "R", "E", "A", "T", "E", " ", "T", "A", "B", "L", "E", " ", "t",
        "(", "x", ")", ";">>,
      <<Stmt("CREATE TABLE", "t")>>),
    Script("create table u(y);",
      <<"c", "r", "e", "a", "t", "e", " ", "t", "a", "b", "l", "e", " ", "u",
        "(", "y", ")", ";">>,
      <<Stmt("CREATE TABLE", "u")>>),
    Script("CREATE TABLE \"a\"\"b\"(x);",
      <<"C", "R", "E", "A", "T", "E", " ", "T", "A", "B", "L", "E", " ",
        "\"", "a", "\"", "\"", "b", "\"", "(", "x", ")", ";">>,
      <<Stmt("CREATE TABLE", "a\"b")>>),
    Script("INSERT INTO t VALUES (1);",
      <<"I", "N", "S", "E", "R", "T", " ", "I", "N", "T", "O", " ", "t", " ",
        "V", "A", "L", "U", "E", "S", " ", "(", "1", ")", ";">>,
      <<Insert("t", NumberValue(1))>>),
    Script("INSERT INTO t VALUES (x'68ff');",
      <<"I", "N", "S", "E", "R", "T", " ", "I", "N", "T", "O", " ", "t", " ",
        "V", "A", "L", "U", "E", "S", " ", "(", "x", "'", "6", "8", "f", "f",
        "'", ")", ";">>,
      <<Insert("t", BinaryValue(<<104, 255>>))>>),
    Script("INSERT INTO u VALUES (NULL);",
      <<"I", "N", "S", "E", "R", "T", " ", "I", "N", "T", "O", " ", "u", " ",
        "V", "A", "L", "U", "E", "S", " ", "(", "N", "U", "L", "L", ")", ";">>,
      <<Insert("u", Null)>>),
    Script("DELETE FROM t;",
      <<"D", "E", "L", "E", "T", "E", " ", "F", "R", "O", "M", " ", "t", ";">>,
      <<Stmt("DELETE FROM", "t")>>),
    Script("DROP TABLE t;",
      <<"D", "R", "O", "P", " ", "T", "A", "B", "L", "E", " ", "t", ";">>,
      <<Stmt("DROP TABLE", "t")>>),
    Script("SELECT * FROM t;",
      <<"S", "E", "L", "E", "C", "T", " ", "*", " ", "F", "R", "O", "M", " ",
        "t", ";">>,
      <<Stmt("SELECT * FROM", "t")>>),
    Script("SELECT * FROM t; SELECT * FROM t;",
      <<"S", "E", "L", "E", "C", "T", " ", "*", " ", "F", "R", "O", "M", " ",
        "t", ";", " ", "S", "E", "L", "E", "C", "T", " ", "*", " ", "F", "R",
        "O", "M", " ", "t", ";">>,
      <<Stmt("SELECT * FROM", "t"), Stmt("SELECT * FROM", "t")>>),
    Script("SELECT * FROM t; SELECT * FROM u;",
      <<"S", "E", "L", "E", "C", "T", " ", "*", " ", "F", "R", "O", "M", " ",
        "t", ";", " ", "S", "E", "L", "E", "C", "T", " ", "*", " ", "F", "R",
        "O", "M", " ", "u", ";">>,
      <<Stmt("SELECT * FROM", "t"), Stmt("SELECT * FROM", "u")>>),
    Script("SELEC;",
      <<"S", "E", "L", "E", "C", ";">>,
      <<[kw |-> "SYNTAX"]>>) }

\* Texts that exercise the statement patterns: UPDATE followed by white
\* space and by a quoted name, lower case with leading and repeated white
\* space, and a statement behind a comment.
PatternScripts ==
  { Script("CREATE TABLE t(x);",
      <<"C", "R", "E", "A", "T", "E", " ", "T", "A", "B", "L", "E", " ", "t",
        "(", "x", ")", ";">>,
      <<Stmt("CREATE TABLE", "t")>>),
    Script("INSERT INTO t VALUES (1);",
      <<"I", "N", "S", "E", "R", "T", " ", "I", "N", "T", "O", " ", "t", " ",
        "V", "A", "L", "U", "E", "S", " ", "(", "1", ")", ";">>,
      <<Insert("t", NumberValue(1))>>),
    Script("UPDATE t SET x = 2;",
      <<"U", "P", "D", "A", "T", "E", " ", "t", " ", "S", "E", "T", " ", "x",
        " ", "=", " ", "2", ";">>,
      <<Update("t", NumberValue(2))>>),
    Script("UPDATE\"t\" SET x = 2;",
      <<"U", "P", "D", "A", "T", "E", "\"", "t", "\"", " ", "S", "E", "T",
        " ", "x", " ", "=", " ", "2", ";">>,
      <<Update("t", NumberValue(2))>>),
    Script(" \n insert \t into t values (1);",
      <<" ", "\n", " ", "i", "n", "s", "e", "r", "t", " ", "\t", " ", "i",
        "n", "t", "o", " ", "t", " ", "v", "a", "l", "u", "e", "s", " ", "(",
        "1", ")", ";">>,
      <<Insert("t", NumberValue(1))>>),
    Script("-- all\nDELETE FROM t;",
      <<"-", "-", " ", "a", "l", "l", "\n", "D", "E", "L", "E", "T", "E",
        " ", "F", "R", "O", "M", " ", "t", ";">>,
      <<Stmt("DELETE FROM", "t")>>),
    Script("SELECT * FROM t;",
      <<"S", "E", "L", "E", "C", "T", " ", "*", " ", "F", "R", "O", "M", " ",
        "t", ";">>,
      <<Stmt("SELECT * FROM", "t")>>),
    Script("SELEC;",
      <<"S", "E", "L", "E", "C", ";">>,
      <<[kw |-> "SYNTAX"]>>) }

\* \s of a regular expression, over the white space an editor text holds.
WhiteSpace == {" ", "\t", "\n", "\r"}

\* The i flag: letters compare by their upper case.
LowerCase == <<"a", "b", "c", "d", "e", "f", "g", "h", "i", "j", "k", "l", "m",
               "n", "o", "p", "q", "r", "s", "t", "u", "v", "w", "x", "y", "z">>
UpperCase == <<"A", "B", "C", "D", "E", "F", "G", "H", "I", "J", "K", "L", "M",
               "N", "O", "P", "Q", "R", "S", "T", "U", "V", "W", "X", "Y", "Z">>
ToUpper(c) ==
  IF \E i \in DOMAIN LowerCase : LowerCase[i] = c
  THEN UpperCase[CHOOSE i \in DOMAIN LowerCase : LowerCase[i] = c]
  ELSE c

\* \s* from position i: the position of the first character that is not
\* white space.
RECURSIVE SkipSpace(_, _)
SkipSpace(chars, i) ==
  IF i <= Len(chars) /\ chars[i] \in WhiteSpace
  THEN SkipSpace(chars, i + 1)
  ELSE i

\* The letters of a word stand at position i, in either case.
MatchesWord(chars, i, word) ==
  /\ i + Len(word) - 1 <= Len(chars)
  /\ \A k \in DOMAIN word : ToUpper(chars[i + k - 1]) = word[k]

\* The words from position i on, \s+ between two words, and \s+ after the
\* last word when the pattern ends in it.
RECURSIVE MatchesWords(_, _, _, _)
MatchesWords(chars, i, words, trailingSpace) ==
  /\ MatchesWord(chars, i, Head(words))
  /\ LET j == i + Len(Head(words))
     IN IF Tail(words) = <<>>
        THEN trailingSpace => (j <= Len(chars) /\ chars[j] \in WhiteSpace)
        ELSE /\ j <= Len(chars)
             /\ chars[j] \in WhiteSpace
             /\ MatchesWords(chars, SkipSpace(chars, j), Tail(words),
                             trailingSpace)

\* /^\s*WORD\s+WORD/i and /^\s*WORD\s+/i
Pattern(words, trailingSpace) == [words |-> words, trailingSpace |-> trailingSpace]
RegExpTest(pattern, chars) ==
  MatchesWords(chars, SkipSpace(chars, 1), pattern.words, pattern.trailingSpace)

INSERT == <<"I", "N", "S", "E", "R", "T">>
INTO == <<"I", "N", "T", "O">>
UPDATE == <<"U", "P", "D", "A", "T", "E">>
DELETE == <<"D", "E", "L", "E", "T", "E">>
FROM == <<"F", "R", "O", "M">>
CREATE == <<"C", "R", "E", "A", "T", "E">>
DROP == <<"D", "R", "O", "P">>
ALTER == <<"A", "L", "T", "E", "R">>
TABLE == <<"T", "A", "B", "L", "E">>

\* The statement patterns of isDMLQuery.
dmlPatterns ==
  { Pattern(<<INSERT, INTO>>, FALSE), Pattern(<<UPDATE>>, TRUE),
    Pattern(<<DELETE, FROM>>, FALSE), Pattern(<<CREATE, TABLE>>, FALSE),
    Pattern(<<DROP, TABLE>>, FALSE), Pattern(<<ALTER, TABLE>>, FALSE) }

\* dmlPatterns.some(pattern => pattern.test(query))
MatchesSomePattern(chars) ==
  \E pattern \in dmlPatterns : RegExpTest(pattern, chars)

\* The texts of the model that match, worked out once for each text.
DMLTexts ==
  {sc.src : sc \in {sc \in Scripts \cup PatternScripts :
                      MatchesSomePattern(sc.chars)}}

isDMLQuery(query) == query.src \in DMLTexts

\* Files the user can pick: a name and the database image the file holds.
File(name, image) == [kind |-> "file", name |-> name, image |-> image]
ShopDb == File("shop.db", <<[name |-> "u", rows |-> << <<TextValue(<<104>>)>> >>]>>)
EmptySqlite == File("empty.sqlite", <<>>)

\* ------------------------------------------------------------------- state
VARIABLES
  db,              \* App: the engine handle, or Null
  file,            \* App: the selected File, or Null
  leftWidth,       \* App: layout fractions, in tenths
  topHeightLeft,
  topHeightRight,
  editorContent,   \* App: the editor text
  tables,          \* App: table name -> rows
  tableSchemas,    \* App: list of table schemas
  queryResults,    \* App: Null or result key -> rows
  queryError,      \* App: Null or text
  queryMessage,    \* App: Null or text
  fileName,        \* Navbar: the title shown
  loads,           \* loadSqlJs runs whose awaits have not completed
  clears,          \* clearDatabase runs awaiting initSqlJs
  dbCount,         \* database handles constructed so far
  download,        \* the last blob handed to the browser, or Null
  alertText,       \* the last alert shown, or Null
  listeners,       \* mousemove/mouseup listener pairs registered
  nodePositionsRef,\* SchemaFlow: node id -> position
  nodes,           \* SchemaFlow: the nodes of the graph
  localStorage,    \* the browser's localStorage entry, or Null
  tableKeys,       \* AvailableTables: Object.keys(tables), in key order
  selectedTable,   \* AvailableTables: the table selected in the list
  navEmitted,      \* the props the Navbar called in the last step
  lastOp           \* the last handler run and what it saw

appVars == <<db, file, editorContent, tables, tableSchemas, queryResults,
             queryError, queryMessage>>
layoutVars == <<leftWidth, topHeightLeft, topHeightRight>>
graphVars == <<nodePositionsRef, nodes, localStorage>>
listVars == <<tableKeys, selectedTable>>
vars == <<appVars, layoutVars, graphVars, listVars, fileName, loads, clears, dbCount,
          download, alertText, listeners, navEmitted, lastOp>>

\* ------------------------------------------------------- catalog refresh
Range(s) == {s[i] : i \in DOMAIN s}
EmptyRecord == [k \in {} |-> <<>>]

\* Object.fromEntries pairs each column with its cell; a later column of the
\* same name overwrites an earlier one.
LastIndexOf(columns, col) ==
  CHOOSE i \in DOMAIN columns :
    /\ columns[i] = col
    /\ \A j \in DOMAIN columns : columns[j] = col => j <= i

\* fetchTables: values.map(row => Object.fromEntries(columns.map((col, i) =>
\* [col, convertSqlValue(row[i])])))
RowObjects(columns, values) ==
  [r \in DOMAIN values |->
     [col \in Range(columns) |->
        convertSqlValue(values[r][LastIndexOf(columns, col)])]]

\* executeQuery: table.values.map(row => Object.fromEntries(...)) with the
\* inline conversion
ResultRowObjects(columns, values) ==
  [r \in DOMAIN values |->
     [col \in Range(columns) |->
        decodeResultValue(values[r][LastIndexOf(columns, col)])]]

\* `${keyword} "${table}";` as the engine parses it: the name is put between
\* double quotes without escaping, so a name that holds one ends the
\* identifier early and leaves an unterminated token.
Interpolated(keyword, table) ==
  IF HasDoubleQuote(table) THEN [kw |-> "UNQUOTED"] ELSE Stmt(keyword, table)

\* tableQuery[0]?.values.map(row => row[0]) || []
TableNameList(database) ==
  LET tableQuery ==
        EngineExec(database, <<[kw |-> "SELECT name FROM sqlite_master"]>>).results
  IN IF tableQuery = <<>> THEN <<>>
     ELSE [i \in DOMAIN tableQuery[1].values |-> tableQuery[1].values[i][1]]

\* fetchTables: the value of `tables` after the call, `prev` being its value
\* before.  A throw anywhere inside is caught and setTables is not reached.
fetchTables(database, prev) ==
  LET tableNames == TableNameList(database)
      SelectAll(table) == EngineExec(database, <<Interpolated("SELECT * FROM", table)>>)
  IN IF \E i \in DOMAIN tableNames : SelectAll(tableNames[i]).error # Null
     THEN prev
     ELSE [table \in Range(tableNames) |->
             LET result == SelectAll(table).results
             IN IF result # <<>>
                THEN RowObjects(result[1].columns, result[1].values)
                ELSE <<>>]

\* Object.keys of the value fetchTables leaves in `tables`: the keys in
\* insertion order, the order of the name list; the keys of before when
\* setTables is not reached.
fetchTableKeys(database, prev) ==
  LET tableNames == TableNameList(database)
      SelectAll(table) == EngineExec(database, <<Interpolated("SELECT * FROM", table)>>)
  IN IF \E i \in DOMAIN tableNames : SelectAll(tableNames[i]).error # Null
     THEN prev
     ELSE tableNames

\* One table's schema entry, or <<>> when table_info returns nothing or a
\* PRAGMA throws (the per-table catch).
SchemaEntry(database, tableName) ==
  LET columnInfo == EngineExec(database, <<Interpolated("PRAGMA table_info", tableName)>>)
      foreignKeyInfo ==
        EngineExec(database, <<Interpolated("PRAGMA foreign_key_list", tableName)>>)
  IN IF columnInfo.error # Null \/ columnInfo.results = <<>>
        \/ foreignKeyInfo.error # Null
     THEN <<>>
     ELSE << [name |-> tableName,
              columns |->
                [i \in DOMAIN columnInfo.results[1].values |->
                   LET col == columnInfo.results[1].values[i]
                   IN [name |-> col[2], type |-> col[3], notNull |-> col[4] # 0,
                       defaultValue |-> col[5], primaryKey |-> col[6] # 0]],
              foreignKeys |->
                IF foreignKeyInfo.results = <<>> THEN <<>>
                ELSE [i \in DOMAIN foreignKeyInfo.results[1].values |->
                        LET fk == foreignKeyInfo.results[1].values[i]
                        IN [id |-> <<tableName, "_fk_", i - 1>>,
                            columnName |-> fk[4], referencedTable |-> fk[3],
                            referencedColumn |-> fk[5]]]] >>

RECURSIVE SchemasOf(_, _)
SchemasOf(database, names) ==
  IF names = <<>> THEN <<>>
  ELSE SchemaEntry(database, Head(names)) \o SchemasOf(database, Tail(names))

\* fetchTableSchemas: the value of `tableSchemas` after the call.
fetchTableSchemas(database, prev) == SchemasOf(database, TableNameList(database))

\* ------------------------------------------------------------ schema graph
Position(x, y) == [x |-> x, y |-> y]

\* generateInitialNodes: one node per schema, at its saved position or on a
\* grid of two per row.
generateInitialNodes(schemas, positions) ==
  [i \in DOMAIN schemas |->
     [id |-> schemas[i].name,
      position |->
        IF schemas[i].name \in DOMAIN positions
        THEN positions[schemas[i].name]
        ELSE Position(((i - 1) % 2) * 350 + 50, ((i - 1) \div 2) * 350 + 50)]]

\* mutant: the effect regenerates the nodes without caching their positions
CachePositions_Skip(positions, ns) == positions

\* The [tables] effect of SchemaFlow, first half: every node's position is
\* written to the position cache.
CachePositions(positions, ns) ==
  [id \in DOMAIN positions \cup {ns[i].id : i \in DOMAIN ns} |->
     IF \E i \in DOMAIN ns : ns[i].id = id
     THEN (ns[CHOOSE i \in DOMAIN ns : ns[i].id = id]).position
     ELSE positions[id]]

\* JSON.stringify(nodePositionsRef.current): one {x, y} entry per key.
JSONStringify(positions) ==
  [kind |-> "string",
   entries |-> {<<id, positions[id].x, positions[id].y>> : id \in DOMAIN positions}]

\* JSON.parse of such a string.
JSONParse(text) ==
  [id \in {e[1] : e \in text.entries} |->
     LET e == CHOOSE e \in text.entries : e[1] = id
     IN Position(e[2], e[3])]

\* ------------------------------------------------------------------- texts
Text(pieces) == [kind |-> "text", parts |-> pieces]
SqlErrorText(error) == Text(<<"SQL Error: ">> \o error.message)
RowsAffectedText(n) ==
  [kind |-> "text", parts |-> <<"Query executed successfully. Rows affected: ">>,
   n |-> n]
NoRowsText == Text(<<"Query executed successfully. No rows returned.">>)
\* mutant: setQueryMessage(null) runs after the success message is set
ClearedText_Null == Null

\* setQueryMessage("Database cleared successfully. ...") of clearDatabase
ClearedText ==
  Text(<<"Database cleared successfully. Start with a fresh database.">>)
NoDatabaseAlert ==
  Text(<<"No database to download. Please create tables or load a database first.">>)
DownloadedAlert(name) == Text(<<"Database \"", name, "\" downloaded successfully!">>)
ClearFailedAlert == Text(<<"Error clearing database: ", "initSqlJs failed">>)

\* -------------------------------------------------------------------- Init
Init ==
  /\ db = Null
  /\ file = Null
  /\ leftWidth = 3
  /\ topHeightLeft = 5
  /\ topHeightRight = 5
  /\ editorContent = DefaultContent
  /\ tables = EmptyRecord
  /\ tableKeys = <<>>
  /\ selectedTable = ""
  /\ tableSchemas = <<>>
  /\ queryResults = Null
  /\ queryError = Null
  /\ queryMessage = Null
  /\ fileName = "Select a database file"
  /\ loads = {Null}
  /\ clears = 0
  /\ dbCount = 0
  /\ download = Null
  /\ alertText = Null
  /\ listeners = <<>>
  /\ nodePositionsRef = EmptyRecord
  /\ nodes = <<>>
  /\ localStorage = Null
  /\ navEmitted = <<>>
  /\ lastOp = [op |-> "mount"]

\* ----------------------------------------------------------------- actions
Results(data) == [kind |-> "results", data |-> data]
EmptyResults == Results(EmptyRecord)

\* tableData of executeQuery: one key per distinct column list (the key is
\* columns.join(", "), modelled by the column list itself); a later result
\* set with the same key overwrites an earlier one.
TableData(result) ==
  [key \in {result[i].columns : i \in DOMAIN result} |->
     LET last == CHOOSE i \in DOMAIN result :
                   /\ result[i].columns = key
                   /\ \A j \in DOMAIN result : result[j].columns = key => j <= i
     IN ResultRowObjects(result[last].columns, result[last].values)]

\* mutant: the DML catch logs the error and sets no queryError
DmlCatch_Silent(error) == Null

\* catch (dmlError): setQueryError(`SQL Error: ${errorMessage}`)
DmlCatch(error) == SqlErrorText(error)

\* The body of executeQuery up to the refetch: the engine after the
\* statement, the path taken, what the engine threw and returned, and the
\* three result cells as the setters leave them.
QueryOutcome(database, content, prevResults) ==
  LET r == EngineExec(database, content.stmts)
      after == [database EXCEPT !.cat = r.cat, !.changes = r.changes]
  IN IF isDMLQuery(content)
     THEN IF r.error = Null
          THEN [db |-> after, path |-> "dml-ok", thrown |-> Null, result |-> <<>>,
                queryResults |-> EmptyResults, queryError |-> Null,
                queryMessage |-> RowsAffectedText(after.changes)]
          ELSE [db |-> after, path |-> "dml-error", thrown |-> r.error,
                result |-> <<>>,
                queryResults |-> prevResults, queryError |-> DmlCatch(r.error),
                queryMessage |-> Null]
     ELSE IF r.error = Null
          THEN IF r.results # <<>>
               THEN [db |-> after, path |-> "exec-rows", thrown |-> Null,
                     result |-> r.results,
                     queryResults |-> Results(TableData(r.results)),
                     queryError |-> Null, queryMessage |-> Null]
               ELSE [db |-> after, path |-> "exec-empty", thrown |-> Null,
                     result |-> <<>>,
                     queryResults |-> EmptyResults, queryError |-> Null,
                     queryMessage |-> NoRowsText]
          ELSE [db |-> after, path |-> "exec-error", thrown |-> r.error,
                result |-> <<>>,
                queryResults |-> EmptyResults,
                queryError |-> SqlErrorText(r.error), queryMessage |-> Null]

\* What a new value of the `tables` prop does to SchemaFlow: the [tables]
\* effect caches the positions of the nodes and regenerates them.
GraphRefresh(schemas) ==
  /\ nodePositionsRef' = CachePositions(nodePositionsRef, nodes)
  /\ nodes' = generateInitialNodes(schemas, nodePositionsRef')
  /\ UNCHANGED localStorage

\* mutant: the effect selects the first table on every change
SelectedAfterEffect_First(tableNames, selected) ==
  IF Len(tableNames) > 0 THEN tableNames[1] ELSE selected

\* The effect of AvailableTables: with at least one table and the selected
\* one not among them, the first is selected.
SelectedAfterEffect(tableNames, selected) ==
  IF Len(tableNames) > 0 /\ selected \notin Range(tableNames)
  THEN tableNames[1]
  ELSE selected

\* What a new value of the `tables` prop does to AvailableTables: it renders
\* with the new keys and its effect runs.
ListRefresh(keys) ==
  /\ tableKeys' = keys
  /\ selectedTable' = SelectedAfterEffect(keys, selectedTable)

WithinRows(cat) == \A i \in DOMAIN cat : Len(cat[i].rows) <= MaxRows

\* Editor onChange
SetEditorContent(script) ==
  /\ editorContent' = script
  /\ navEmitted' = <<>>
  /\ lastOp' = [op |-> "onChange"]
  /\ UNCHANGED <<listVars, db, file, tables, tableSchemas, queryResults, queryError,
                 queryMessage, layoutVars, graphVars, fileName, loads, clears,
                 dbCount, download, alertText, listeners>>

\* mutant: the width re-applied is the minimum fraction
ReappliedLeftWidth_Min(currentLeftWidth) == 2

\* const currentLeftWidth = leftWidth ... setLeftWidth(currentLeftWidth);
\* the outer catch does not reach the setter.
ReappliedLeftWidth(currentLeftWidth) == currentLeftWidth

\* Run SQL
ExecuteQuery ==
  /\ db # Null
  /\ LET out == QueryOutcome(db, editorContent, queryResults)
     IN /\ WithinRows(out.db.cat)
        /\ db' = out.db
        /\ queryResults' = out.queryResults
        /\ queryError' = out.queryError
        /\ queryMessage' = out.queryMessage
        /\ tables' = fetchTables(out.db, tables)
        /\ ListRefresh(fetchTableKeys(out.db, tableKeys))
        /\ tableSchemas' = fetchTableSchemas(out.db, tableSchemas)
        /\ GraphRefresh(tableSchemas')
        /\ leftWidth' = IF out.path = "exec-error" THEN leftWidth
                        ELSE ReappliedLeftWidth(leftWidth)
        /\ lastOp' = [op |-> "executeQuery", path |-> out.path,
                      thrown |-> out.thrown, result |-> out.result]
  /\ navEmitted' = <<>>
  /\ UNCHANGED <<file, editorContent, topHeightLeft, topHeightRight, fileName,
                 loads, clears, dbCount, download, alertText, listeners>>

\* loadSqlJs, once initSqlJs and the FileReader have completed: the new
\* handle is stored and the [db] effect fetches tables and schemas.
LoadSqlJsDone(request) ==
  /\ request \in loads
  /\ dbCount < MaxDbs
  /\ loads' = loads \ {request}
  /\ dbCount' = dbCount + 1
  /\ db' = NewDatabase(dbCount', IF request = Null THEN <<>> ELSE request.image)
  /\ tables' = fetchTables(db', tables)
  /\ ListRefresh(fetchTableKeys(db', tableKeys))
  /\ tableSchemas' = fetchTableSchemas(db', tableSchemas)
  /\ GraphRefresh(tableSchemas')
  /\ navEmitted' = <<>>
  /\ lastOp' = [op |-> "loadSqlJs"]
  /\ UNCHANGED <<file, editorContent, queryResults, queryError, queryMessage,
                 layoutVars, fileName, clears, download, alertText, listeners>>

\* Navbar: the file input changes
handleFileUpload(files) ==
  /\ IF Len(files) > 0
     THEN /\ fileName' = files[1].name
          /\ file' = files[1]
          /\ loads' = loads \cup {files[1]}
          /\ navEmitted' = <<[prop |-> "onFileSelect", arg |-> files[1]]>>
     ELSE /\ navEmitted' = <<>>
          /\ UNCHANGED <<fileName, file, loads>>
  /\ lastOp' = [op |-> "handleFileUpload", files |-> files]
  /\ UNCHANGED <<listVars, db, editorContent, tables, tableSchemas, queryResults,
                 queryError, queryMessage, layoutVars, graphVars, clears, dbCount,
                 download, alertText, listeners>>

\* mutant: Clear DB does not wait for the confirmation
ClearConfirmed_Always(accepted) == TRUE

\* if (window.confirm(...))
ClearConfirmed(accepted) == accepted

\* Navbar: Clear DB is clicked and the confirmation answered
handleClearDb(accepted) ==
  /\ IF ClearConfirmed(accepted)
     THEN /\ clears < MaxClears
          /\ clears' = clears + 1
          /\ fileName' = "New Database"
          /\ navEmitted' = <<[prop |-> "onClearDb"]>>
     ELSE /\ navEmitted' = <<>>
          /\ UNCHANGED <<fileName, clears>>
  /\ lastOp' = [op |-> "handleClearDb", accepted |-> accepted]
  /\ UNCHANGED <<listVars, appVars, layoutVars, graphVars, loads, dbCount, download,
                 alertText, listeners>>

\* clearDatabase, once initSqlJs has resolved.  setFile(null) re-runs the
\* [file] effect when a file was selected; the [db] effect fetches from the
\* new handle.
clearDatabase ==
  /\ clears > 0
  /\ dbCount < MaxDbs
  /\ clears' = clears - 1
  /\ dbCount' = dbCount + 1
  /\ db' = NewDatabase(dbCount', <<>>)
  /\ file' = Null
  /\ loads' = IF file # Null THEN loads \cup {Null} ELSE loads
  /\ tables' = fetchTables(db', EmptyRecord)
  /\ ListRefresh(fetchTableKeys(db', <<>>))
  /\ tableSchemas' = fetchTableSchemas(db', <<>>)
  /\ GraphRefresh(tableSchemas')
  /\ queryResults' = Null
  /\ queryError' = Null
  /\ editorContent' = DefaultContent
  /\ queryMessage' = ClearedText
  /\ navEmitted' = <<>>
  /\ lastOp' = [op |-> "clearDatabase", ok |-> TRUE]
  /\ UNCHANGED <<layoutVars, fileName, download, alertText, listeners>>

\* clearDatabase when initSqlJs rejects: the catch alerts
clearDatabaseFailed ==
  /\ clears > 0
  /\ clears' = clears - 1
  /\ alertText' = ClearFailedAlert
  /\ navEmitted' = <<>>
  /\ lastOp' = [op |-> "clearDatabase", ok |-> FALSE]
  /\ UNCHANGED <<listVars, appVars, layoutVars, graphVars, fileName, loads, dbCount,
                 download, listeners>>

\* mutant: the export is always given the default name
ExportName_Default(f) == "sql-playground-export.sqlite"

\* const fileName = file ? file.name : 'sql-playground-export.sqlite'
ExportName(f) == IF f # Null THEN f.name ELSE "sql-playground-export.sqlite"

\* Navbar: Download DB is clicked; downloadDatabase runs
downloadDatabase ==
  /\ IF db = Null
     THEN /\ alertText' = NoDatabaseAlert
          /\ UNCHANGED download
     ELSE /\ download' = [kind |-> "blob", name |-> ExportName(file),
                          data |-> db.cat]
          /\ alertText' = DownloadedAlert(ExportName(file))
  /\ navEmitted' = <<[prop |-> "onDownloadDb"]>>
  /\ lastOp' = [op |-> "downloadDatabase"]
  /\ UNCHANGED <<listVars, appVars, layoutVars, graphVars, fileName, loads, clears,
                 dbCount, listeners>>

\* ------------------------------------------------------------------ resizers
\* Fractions are in tenths and the pointer's coordinates in tenths of the
\* window (clientX / window.innerWidth, clientY / window.innerHeight).
minFraction == 2
maxFraction == 8
MousePositions == {0, 3}
Min(a, b) == IF a < b THEN a ELSE b
Max(a, b) == IF a > b THEN a ELSE b

\* mutant: only the upper limit is applied
Clamp_NoMin(v) == Min(maxFraction, v)

\* Math.max(minFraction, Math.min(maxFraction, v))
Clamp(v) == Max(minFraction, Min(maxFraction, v))

\* onMouseDown of a resizer: start position and start fraction are captured
\* and a mousemove/mouseup listener pair is registered.
handleResize(cell, x, y) ==
  /\ Len(listeners) < MaxListeners
  /\ listeners' =
       Append(listeners,
              [cell |-> cell,
               start |-> IF cell = "leftWidth" THEN x ELSE y,
               startFraction |->
                 CASE cell = "leftWidth" -> leftWidth
                   [] cell = "topHeightLeft" -> topHeightLeft
                   [] cell = "topHeightRight" -> topHeightRight])
  /\ navEmitted' = <<>>
  /\ lastOp' = [op |-> "mousedown"]
  /\ UNCHANGED <<listVars, appVars, layoutVars, graphVars, fileName, loads, clears,
                 dbCount, download, alertText>>

\* The value a cell has after every registered onMouseMove has run, in
\* registration order.
RECURSIVE AfterMove(_, _, _, _, _)
AfterMove(cell, value, ls, x, y) ==
  IF ls = <<>> THEN value
  ELSE AfterMove(cell,
                 IF Head(ls).cell = cell
                 THEN Clamp(Head(ls).startFraction
                            + (IF cell = "leftWidth" THEN x ELSE y)
                            - Head(ls).start)
                 ELSE value,
                 Tail(ls), x, y)

onMouseMove(x, y) ==
  /\ listeners # <<>>
  /\ leftWidth' = AfterMove("leftWidth", leftWidth, listeners, x, y)
  /\ topHeightLeft' = AfterMove("topHeightLeft", topHeightLeft, listeners, x, y)
  /\ topHeightRight' = AfterMove("topHeightRight", topHeightRight, listeners, x, y)
  /\ navEmitted' = <<>>
  /\ lastOp' = [op |-> "mousemove"]
  /\ UNCHANGED <<listVars, appVars, graphVars, fileName, loads, clears, dbCount, download,
                 alertText, listeners>>

\* Every registered onMouseUp removes its pair.
onMouseUp ==
  /\ listeners # <<>>
  /\ listeners' = <<>>
  /\ navEmitted' = <<>>
  /\ lastOp' = [op |-> "mouseup"]
  /\ UNCHANGED <<listVars, appVars, layoutVars, graphVars, fileName, loads, clears,
                 dbCount, download, alertText>>

\* ---------------------------------------------------------- table list
\* handleTableChange: the select offers one option per table
handleTableChange(value) ==
  /\ \E i \in DOMAIN tableKeys : tableKeys[i] = value
  /\ selectedTable' = value
  /\ navEmitted' = <<>>
  /\ lastOp' = [op |-> "handleTableChange"]
  /\ UNCHANGED <<appVars, layoutVars, graphVars, tableKeys, fileName, loads,
                 clears, dbCount, download, alertText, listeners>>

\* --------------------------------------------------------- graph handlers
DragPositions == {Position(120, 80), Position(400, 400)}

\* handleNodesChange with one position change
handleNodesChange(id, position) ==
  /\ \E i \in DOMAIN nodes : nodes[i].id = id
  /\ nodes' = [i \in DOMAIN nodes |->
                 IF nodes[i].id = id THEN [nodes[i] EXCEPT !.position = position]
                 ELSE nodes[i]]
  /\ nodePositionsRef' =
       [k \in DOMAIN nodePositionsRef \cup {id} |->
          IF k = id THEN position ELSE nodePositionsRef[k]]
  /\ navEmitted' = <<>>
  /\ lastOp' = [op |-> "handleNodesChange"]
  /\ UNCHANGED <<listVars, appVars, layoutVars, localStorage, fileName, loads, clears,
                 dbCount, download, alertText, listeners>>

\* onNodeDragStop: the position cache is written to localStorage; a throw of
\* setItem is caught and leaves the entry as it was.
onNodeDragStop ==
  /\ \/ localStorage' = JSONStringify(nodePositionsRef)
     \/ UNCHANGED localStorage
  /\ navEmitted' = <<>>
  /\ lastOp' = [op |-> "onNodeDragStop"]
  /\ UNCHANGED <<listVars, appVars, layoutVars, nodePositionsRef, nodes, fileName, loads,
                 clears, dbCount, download, alertText, listeners>>

\* mutant: the saved positions are not read back
LoadSavedPositions_Ignore(storage) == EmptyRecord

\* The mount effect of SchemaFlow: the position cache as it leaves it.
LoadSavedPositions(storage) ==
  IF storage # Null THEN JSONParse(storage) ELSE EmptyRecord

\* The page is loaded again: a new session.  Every cell of React state and
\* every ref starts over; localStorage is the browser's and stays.
ReloadPage ==
  /\ db' = Null
  /\ file' = Null
  /\ leftWidth' = 3
  /\ topHeightLeft' = 5
  /\ topHeightRight' = 5
  /\ editorContent' = DefaultContent
  /\ tables' = EmptyRecord
  /\ tableKeys' = <<>>
  /\ selectedTable' = ""
  /\ tableSchemas' = <<>>
  /\ queryResults' = Null
  /\ queryError' = Null
  /\ queryMessage' = Null
  /\ fileName' = "Select a database file"
  /\ loads' = {Null}
  /\ clears' = 0
  /\ dbCount' = 0
  /\ download' = Null
  /\ alertText' = Null
  /\ listeners' = <<>>
  /\ nodePositionsRef' = LoadSavedPositions(localStorage)
  /\ nodes' = generateInitialNodes(<<>>, nodePositionsRef')
  /\ UNCHANGED localStorage
  /\ navEmitted' = <<>>
  /\ lastOp' = [op |-> "mount"]

\* ---------------------------------------------------------- specifications
\* event.target.files of a change event: none, one or two files.
FileLists == {<<>>, <<ShopDb>>, <<EmptySqlite, ShopDb>>}

\* Editing and running SQL on the database the page starts with.
Next ==
  \/ \E script \in Scripts : SetEditorContent(script)
  \/ ExecuteQuery
  \/ \E request \in loads : LoadSqlJsDone(request)

Spec == Init /\ [][Next]_vars

\* The navigation bar and what its events start: loading a file, clearing
\* and downloading.
NextNav ==
  \/ \E request \in loads : LoadSqlJsDone(request)
  \/ \E files \in FileLists : handleFileUpload(files)
  \/ \E accepted \in BOOLEAN : handleClearDb(accepted)
  \/ clearDatabase
  \/ clearDatabaseFailed
  \/ downloadDatabase

SpecNav == Init /\ [][NextNav]_vars

\* Clearing a database that was loaded from a file or built in the editor.
ClearScripts == {sc \in Scripts : sc.src = "CREATE TABLE t(x);"}

NextClear ==
  \/ \E script \in ClearScripts : SetEditorContent(script)
  \/ ExecuteQuery
  \/ \E request \in loads : LoadSqlJsDone(request)
  \/ \E files \in FileLists : handleFileUpload(files)
  \/ \E accepted \in BOOLEAN : handleClearDb(accepted)
  \/ clearDatabase
  \/ clearDatabaseFailed

SpecClear == Init /\ [][NextClear]_vars

\* The three resizers, with executions of the editor's initial text and
\* database clears in between.
Resizers == {"leftWidth", "topHeightLeft", "topHeightRight"}

NextLayout ==
  \/ ExecuteQuery
  \/ \E request \in loads : LoadSqlJsDone(request)
  \/ handleClearDb(TRUE)
  \/ clearDatabase
  \/ \E cell \in Resizers, x \in MousePositions, y \in MousePositions :
       handleResize(cell, x, y)
  \/ \E x \in MousePositions, y \in MousePositions : onMouseMove(x, y)
  \/ onMouseUp

SpecLayout == Init /\ [][NextLayout]_vars

\* The schema graph across sessions: tables come and go, nodes are dragged
\* and dropped, the page is loaded again.
GraphScripts ==
  {sc \in Scripts : sc.src \in {"CREATE TABLE t(x);", "create table u(y);",
                                 "DROP TABLE t;"}}

NextGraph ==
  \/ \E script \in GraphScripts : SetEditorContent(script)
  \/ ExecuteQuery
  \/ \E request \in loads : LoadSqlJsDone(request)
  \/ \E id \in TableNames, position \in DragPositions :
       handleNodesChange(id, position)
  \/ onNodeDragStop
  \/ ReloadPage

SpecGraph == Init /\ [][NextGraph]_vars

\* Queries that succeed and queries that throw, run with a file selected
\* and the panes resized: each resizer is dragged from the window's origin
\* by 0.3 of the window.
SessionScripts ==
  {sc \in Scripts : sc.src \in {"CREATE TABLE t(x);", "SELEC;"}}

NextSession ==
  \/ \E script \in SessionScripts : SetEditorContent(script)
  \/ ExecuteQuery
  \/ \E request \in loads : LoadSqlJsDone(request)
  \/ handleFileUpload(<<ShopDb>>)
  \/ \E cell \in Resizers : handleResize(cell, 0, 0)
  \/ onMouseMove(3, 3)
  \/ onMouseUp

SpecSession == Init /\ [][NextSession]_vars

\* The table list: tables are created and dropped, the database is
\* cleared, and the user picks a table.
NextTables ==
  \/ \E script \in GraphScripts : SetEditorContent(script)
  \/ ExecuteQuery
  \/ \E request \in loads : LoadSqlJsDone(request)
  \/ handleClearDb(TRUE)
  \/ clearDatabase
  \/ \E value \in TableNames : handleTableChange(value)

SpecTables == Init /\ [][NextTables]_vars

\* Run SQL over the texts that exercise the statement patterns.
NextClassify ==
  \/ \E script \in PatternScripts : SetEditorContent(script)
  \/ ExecuteQuery
  \/ \E request \in loads : LoadSqlJsDone(request)

SpecClassify == Init /\ [][NextClassify]_vars

\* -------------------------------------------------------------- properties
\* What the results pane renders: the error box when queryError is truthy,
\* else the success box when queryMessage is truthy, else the result table.
Truthy(text) == text # Null /\ text.parts # <<>>
ResultsPane ==
  IF Truthy(queryError) THEN "error box"
  ELSE IF Truthy(queryMessage) THEN "success box" ELSE "QueryOutputTable"

\* A result set's rows as objects, binary cells decoded: what a faithful
\* republication of the result set holds.
Decoded(value) ==
  IF value.kind = "binary"
  THEN [kind |-> "text",
        s |-> [i \in DOMAIN value.bytes |->
                 IF value.bytes[i] < 128 THEN value.bytes[i] ELSE 65533]]
  ELSE value
ExpectedRow(columns, row) ==
  [col \in Range(columns) |->
     Decoded(row[CHOOSE i \in DOMAIN columns : columns[i] = col])]

CellKinds == {"text", "number", "null"}
CellsOf(rows) == {rows[r][col] : r \in DOMAIN rows, col \in UNION {DOMAIN rows[q] : q \in DOMAIN rows}}
AfterExecuteQuery == lastOp.op = "executeQuery"

\* C1: after every executeQuery that returns, `tables` has exactly one key
\* and `tableSchemas` exactly one entry per table of the engine's catalog as it
\* stands after the statement, and none for a table that no longer exists.
C1_RecomputedFromCatalog ==
  AfterExecuteQuery =>
    /\ DOMAIN tables = CatNames(db.cat)
    /\ {tableSchemas[i].name : i \in DOMAIN tableSchemas} = CatNames(db.cat)
    /\ Len(tableSchemas) = Cardinality(CatNames(db.cat))

\* C2: whatever the engine throws while the editor's SQL runs, through run or
\* through exec, executeQuery ends with queryError equal to "SQL Error: "
\* followed by the exception's message, and the results pane shows the error
\* box.
C2_EngineErrorsShown ==
  (AfterExecuteQuery /\ lastOp.thrown # Null) =>
    /\ queryError = Text(<<"SQL Error: ">> \o lastOp.thrown.message)
    /\ ResultsPane = "error box"

\* C2 witness: a statement run with run() threw and the error box is shown
C2_Witness ==
  /\ AfterExecuteQuery
  /\ lastOp.path = "dml-error"
  /\ lastOp.thrown = NoSuchTable("t")
  /\ ResultsPane = "error box"

\* C3: after a successful exec that returned n >= 1 result sets, queryResults
\* holds n entries, one per result set, each with every row of its result set
\* in order.
C3_AllResultSetsRepublished ==
  (AfterExecuteQuery /\ lastOp.path = "exec-rows") =>
    /\ queryResults # Null
    /\ Cardinality(DOMAIN queryResults.data) = Len(lastOp.result)
    /\ \A i \in DOMAIN lastOp.result :
         /\ lastOp.result[i].columns \in DOMAIN queryResults.data
         /\ queryResults.data[lastOp.result[i].columns] =
              [r \in DOMAIN lastOp.result[i].values |->
                 ExpectedRow(lastOp.result[i].columns, lastOp.result[i].values[r])]

\* C4: every cell stored in a row of `tables` or of `queryResults` is text, a
\* number or null; a binary value of the engine is stored decoded, as text.
C4_CellsArePrimitive ==
  /\ \A name \in DOMAIN tables :
       \A cell \in CellsOf(tables[name]) : cell.kind \in CellKinds
  /\ queryResults # Null =>
       \A key \in DOMAIN queryResults.data :
         \A cell \in CellsOf(queryResults.data[key]) : cell.kind \in CellKinds

\* C4 witness: the blob x'68ff' of table t is held as the text "h\uFFFD" both in
\* `tables` and in `queryResults`
C4_Witness ==
  /\ "t" \in DOMAIN tables
  /\ TextValue(<<104, ReplacementChar>>) \in CellsOf(tables["t"])
  /\ queryResults # Null
  /\ <<"x">> \in DOMAIN queryResults.data
  /\ TextValue(<<104, ReplacementChar>>) \in CellsOf(queryResults.data[<<"x">>])

\* C10: after any executeQuery, queryError, queryMessage and queryResults are
\* determined by that execution alone: queryError is set exactly when the
\* engine threw, queryMessage only on a success path, and every row of
\* queryResults is a row the engine returned to this execution.
C10_ResultsOfThisExecutionOnly ==
  AfterExecuteQuery =>
    /\ (queryError # Null) = (lastOp.thrown # Null)
    /\ (queryMessage # Null) = (lastOp.path \in {"dml-ok", "exec-empty"})
    /\ queryResults # Null =>
         \A key \in DOMAIN queryResults.data :
           \A r \in DOMAIN queryResults.data[key] :
             \E i \in DOMAIN lastOp.result :
               /\ lastOp.result[i].columns = key
               /\ r \in DOMAIN lastOp.result[i].values
               /\ queryResults.data[key][r] =
                    ExpectedRow(key, lastOp.result[i].values[r])

\* The cells of React state and the refs as a session starts them.
FreshRootView ==
  /\ db = Null /\ file = Null
  /\ leftWidth = 3 /\ topHeightLeft = 5 /\ topHeightRight = 5
  /\ editorContent = DefaultContent
  /\ tables = EmptyRecord /\ tableSchemas = <<>>
  /\ queryResults = Null /\ queryError = Null /\ queryMessage = Null
  /\ fileName = "Select a database file"
  /\ nodes = <<>>

\* C5 as stated: nothing a session writes is read by a later one, so a session
\* that has just started is in the same state whatever happened before it.
C5_FreshSessionIndependent ==
  lastOp.op = "mount" => (FreshRootView /\ DOMAIN nodePositionsRef = {})

\* C5, amended: a session that has just started has the root view's initial
\* state, and its node-position cache holds exactly the positions of the
\* localStorage entry that onNodeDragStop of an earlier session saved (none
\* when nothing was saved).
C5_FreshSessionReadsSavedPositions ==
  lastOp.op = "mount" =>
    /\ FreshRootView
    /\ localStorage = Null => DOMAIN nodePositionsRef = {}
    /\ localStorage # Null =>
         /\ DOMAIN nodePositionsRef = {e[1] : e \in localStorage.entries}
         /\ \A e \in localStorage.entries :
              nodePositionsRef[e[1]] = Position(e[2], e[3])

\* C5 witness: a session starts with a dragged position of table t that an
\* earlier session saved
C5_Witness ==
  /\ lastOp.op = "mount"
  /\ localStorage # Null
  /\ "t" \in DOMAIN nodePositionsRef
  /\ nodePositionsRef["t"] = Position(120, 80)

\* C6: the Navbar calls onFileSelect only when the file input changes with at
\* least one file, and with the first file; onClearDb only when the
\* confirmation is accepted; onDownloadDb only on a Download click; a declined
\* confirmation calls nothing and leaves the Navbar's title as it was.
C6_NavbarEmitsOnUserAction ==
  [][ /\ Len(navEmitted') <= 1
      /\ \A i \in DOMAIN navEmitted' :
           /\ navEmitted'[i].prop = "onFileSelect" =>
                /\ lastOp'.op = "handleFileUpload"
                /\ Len(lastOp'.files) > 0
                /\ navEmitted'[i].arg = lastOp'.files[1]
           /\ navEmitted'[i].prop = "onClearDb" =>
                (lastOp'.op = "handleClearDb" /\ lastOp'.accepted)
           /\ navEmitted'[i].prop = "onDownloadDb" =>
                lastOp'.op = "downloadDatabase"
      /\ (lastOp'.op = "handleFileUpload" /\ Len(lastOp'.files) = 0) =>
           (navEmitted' = <<>> /\ fileName' = fileName /\ file' = file)
      /\ (lastOp'.op = "handleClearDb" /\ ~lastOp'.accepted) =>
           (navEmitted' = <<>> /\ fileName' = fileName)
    ]_vars

\* C6 witness: the confirmation was declined with a file's name in the title
C6_Witness ==
  /\ lastOp.op = "handleClearDb"
  /\ ~lastOp.accepted
  /\ navEmitted = <<>>
  /\ fileName = "empty.sqlite"
  /\ clears = 0

\* C7: when clearDatabase completes without an error, db is a new empty
\* database, file is null, tables and tableSchemas are empty, queryResults
\* and queryError are null, the editor holds "-- Write your SQL here" and
\* queryMessage is the cleared message.
C7_ClearStartsFresh ==
  [][ (lastOp'.op = "clearDatabase" /\ lastOp'.ok) =>
        /\ db' # Null
        /\ db'.cat = <<>>
        /\ (db # Null => db'.id # db.id)
        /\ file' = Null
        /\ DOMAIN tables' = {}
        /\ tableSchemas' = <<>>
        /\ queryResults' = Null
        /\ queryError' = Null
        /\ editorContent'.src = "-- Write your SQL here"
        /\ queryMessage' =
             Text(<<"Database cleared successfully. Start with a fresh database.">>)
    ]_vars

\* C7 witness: a clear has completed
C7_Witness ==
  /\ lastOp.op = "clearDatabase"
  /\ lastOp.ok
  /\ db # Null
  /\ db.id = 2
  /\ queryMessage # Null

\* C8: Download DB changes no cell of application state; with db null it
\* exports nothing and alerts; otherwise it exports the current database
\* under the selected file's name, or "sql-playground-export.sqlite" when no
\* file is selected.
C8_DownloadOnlyExports ==
  [][ lastOp'.op = "downloadDatabase" =>
        /\ UNCHANGED <<appVars, layoutVars>>
        /\ db = Null => (download' = download /\ alertText' = NoDatabaseAlert)
        /\ db # Null =>
             /\ download'.data = db.cat
             /\ download'.name =
                  IF file = Null THEN "sql-playground-export.sqlite" ELSE file.name
    ]_vars

\* C8 witness: the database built from shop.db was exported as shop.db
C8_Witness ==
  /\ lastOp.op = "downloadDatabase"
  /\ file # Null
  /\ db # Null
  /\ db.cat # <<>>
  /\ download # Null
  /\ download.name = "shop.db"
  /\ download.data = db.cat

\* C9: whatever mouse-down, mouse-move and mouse-up events reach the three
\* resizers, with query executions and clears in between, leftWidth,
\* topHeightLeft and topHeightRight stay within [0.2, 0.8].
C9_FractionsWithinBounds ==
  /\ leftWidth \in 2..8
  /\ topHeightLeft \in 2..8
  /\ topHeightRight \in 2..8

\* C9 witness: a drag was cut off at the lower limit with another cell at the
\* upper limit
C9_Witness ==
  /\ lastOp.op = "mousemove"
  /\ leftWidth = 2
  /\ topHeightLeft = 8
  /\ topHeightRight = 2

\* The text begins, after optional white space and in either case, with
\* the given words.
BeginsWith(content, words) ==
  MatchesWords(content.chars, SkipSpace(content.chars, 1), words, FALSE)

BeginsWithStatementKeyword(content) ==
  \E words \in { <<INSERT, INTO>>, <<UPDATE>>, <<DELETE, FROM>>,
                 <<CREATE, TABLE>>, <<DROP, TABLE>>, <<ALTER, TABLE>> } :
    BeginsWith(content, words)

\* C11: after a successful execution, a text that begins (after optional
\* white space, in either case) with INSERT INTO, UPDATE, DELETE FROM,
\* CREATE TABLE, DROP TABLE or ALTER TABLE was run with run(), queryResults
\* is empty and queryMessage reports the engine's modified-row count; any
\* other text was run with exec(), and queryMessage is the "No rows
\* returned." text exactly when the engine returned no result set and null
\* when it returned at least one.
C11_OutcomeFixedByClassification ==
  (AfterExecuteQuery /\ lastOp.thrown = Null) =>
    IF BeginsWithStatementKeyword(editorContent)
    THEN /\ lastOp.path = "dml-ok"
         /\ queryResults = EmptyResults
         /\ queryMessage = RowsAffectedText(db.changes)
    ELSE /\ lastOp.path \in {"exec-rows", "exec-empty"}
         /\ (queryMessage = NoRowsText) <=> (lastOp.result = <<>>)
         /\ (lastOp.result # <<>>) => (queryMessage = Null)

\* C12: executeQuery leaves leftWidth, topHeightLeft, topHeightRight,
\* editorContent, file and the identity of the db handle unchanged, on the
\* paths that succeed and on the paths where the engine throws.
C12_ExecuteQueryKeepsLayoutAndSession ==
  [][ (lastOp'.op = "executeQuery") =>
        /\ leftWidth' = leftWidth
        /\ topHeightLeft' = topHeightLeft
        /\ topHeightRight' = topHeightRight
        /\ editorContent' = editorContent
        /\ file' = file
        /\ db # Null
        /\ db' # Null
        /\ db'.id = db.id
    ]_vars

\* C12 witness: with a file selected and the panes resized, an execution
\* ended in the outer catch
C12_Witness ==
  /\ AfterExecuteQuery
  /\ lastOp.path = "exec-error"
  /\ file # Null
  /\ leftWidth # 3
  /\ topHeightLeft # 5
  /\ topHeightRight # 5

\* C13: after every step, when `tables` holds at least one table the
\* selected table of the Available Tables list is one of them; and a new
\* value of `tables` that still holds the selected table leaves the
\* selection as it was.
C13_SelectionFollowsTables ==
  [][ /\ (DOMAIN tables' # {}) => (selectedTable' \in DOMAIN tables')
      /\ (lastOp'.op # "handleTableChange" /\ selectedTable \in DOMAIN tables')
           => (selectedTable' = selectedTable)
    ]_vars

\* C13 witness: the user picked the second table and a later refresh of
\* `tables` that still holds both kept it
C13_Witness ==
  /\ AfterExecuteQuery
  /\ tableKeys = <<"t", "u">>
  /\ DOMAIN tables = {"t", "u"}
  /\ selectedTable = "u"

\* C14: when the `tables` prop of the schema graph gets a new value, every
\* table that has a node before and after keeps the position its node had
\* immediately before, whether the default grid or a drag put it there.
C14_PositionsPreserved ==
  [][ (lastOp'.op \in {"executeQuery", "loadSqlJs", "clearDatabase"}) =>
        \A i \in DOMAIN nodes, j \in DOMAIN nodes' :
          (nodes[i].id = nodes'[j].id) =>
            (nodes'[j].position = nodes[i].position)
    ]_vars

\* C14 witness: u was created second and never dragged; after t was dropped
\* it is the first table and still stands at the grid's second place
C14_Witness ==
  /\ AfterExecuteQuery
  /\ lastOp.path = "dml-ok"
  /\ editorContent.src = "DROP TABLE t;"
  /\ Len(nodes) = 1
  /\ nodes[1].id = "u"
  /\ nodes[1].position = Position(400, 50)

====
